---- MODULE Spec2Model ----
(***************************************************************************)
(* PacketTransporter: the network simulator (network.c) and the transport  *)
(* layer entry points (transport.c, sender.c, receiver.c) as a state       *)
(* machine.  Sizes are counted in units (a header is HeaderBytes units),   *)
(* and every time value is kept relative to the current time_now_ms(): a   *)
(* Tick advances the clock by one millisecond, which lowers every stored   *)
(* time by one.                                                            *)
(***************************************************************************)
EXTENDS Integers, Sequences, FiniteSets, TLC

\* ------------------------------------------------------------------ bounds
NicSlots == 2
NetSlots == 2
NicBytes == 7
NetBytes == 7
HeaderBytes == 1
MaxPayload == 2
LatencyMs == 2
NetRetryMs == 1
MaxAttempts == 2
MaxSends == 2
PipeSends == 1
CursorSends == 3
MaxTransmissions == 2
MaxBits == 2
ListenerTimeout == 2
MaxArrivals == 3

\* --------------------------------------------------------------- constants
TRANSMISSION_ACCEPTED == 0
TRANSMISSION_REJECTED == 1
TRANSMISSION_RECEIVED == 0
NO_TRANSMISSION_AVAILABLE == 1
BitsPerWord == 64
FarIndex == 4 * BitsPerWord
PACKET_ACCEPTED == 0
PACKET_REJECTED == 1
PACKET_RECEIVED == 0
NO_PACKET_AVAILABLE == 1
UINT64_MAX == 1000000
NULL == 0
time_now_ms == 0
Past == 0 - 1
Pending == 0 - 1

MAX_PAYLOAD_SIZE == MaxPayload
LATENCY_MS == LatencyMs
PROPAGATION_DELAY_MS == LATENCY_MS \div 2
NET_RETRY_MS == NetRetryMs
MAX_ATTEMPTS == MaxAttempts
TransmissionIds == 1..MaxTransmissions
Lengths == {0, MAX_PAYLOAD_SIZE, MAX_PAYLOAD_SIZE + 1}
Timeouts == {0, 1}

Statuses == {"EMPTY", "RESERVED", "WRITING", "READY", "READING"}
Roles == {"ROLE_SENDER", "ROLE_RECEIVER"}
Nets == {"SR_net", "RS_net"}
Kinds == {"outbound_NIC", "network_buffer", "inbound_NIC"}
Buffers == Nets \X Kinds

num_metadata_slots(b) == IF b[2] = "network_buffer" THEN NetSlots ELSE NicSlots
buffer_size_in_bytes(b) == IF b[2] = "network_buffer" THEN NetBytes ELSE NicBytes

\* ----------------------------------------------------------------- threads
SendThreads == {"s1", "s2"}
RecvThreads == {"r1"}
ListenThreads == {"sl"}
NicToWire == [SR_net |-> "n2w_SR", RS_net |-> "n2w_RS"]
WireToNic == [SR_net |-> "w2n_SR", RS_net |-> "w2n_RS"]
Threads == SendThreads \cup RecvThreads \cup ListenThreads
             \cup {NicToWire[n] : n \in Nets} \cup {WireToNic[n] : n \in Nets}

VARIABLES
    meta,              \* metadata_slots of every packet buffer
    wcur,              \* metadata_write_slot of every packet buffer
    rcur,              \* metadata_read_slot of every packet buffer
    mem,               \* buffer_data of every packet buffer
    event,             \* packets_waiting_in_buffer of every packet buffer
    simulation_begin,
    simulation_end,
    layout,            \* order in which the allocator laid the arrays out
    budget,            \* send_packet calls the application has yet to make
    fault,             \* why the process stopped, "none" while it runs
    pc,                \* position of every thread
    loc,               \* locals of every thread
    calls,             \* history: every send_packet call, its claim and its result
    received,          \* history: the last receive_packet call of a thread
    delivered,         \* history: every packet a receive_packet returned
    transmissions_in_progress,  \* g_sender_state: one record per id
    app,               \* the application's calls into the transport layer
    handed,            \* history: packet indices the network accepted
    built,             \* history: the packets the last packetize call built
    last_comm,         \* history: id of the comm packet being processed, or 0
    transmission_info_sparse_array,  \* g_receiver_state: one record per id
    documented         \* history: packet count and data packets seen, per id

netvars == <<meta, wcur, rcur, mem, event, simulation_begin, simulation_end,
             layout, budget, pc, loc, calls, received, delivered>>

rx == <<transmission_info_sparse_array, documented>>

transport == <<transmissions_in_progress, app, handed, built, last_comm, rx>>

vars == <<netvars, fault, transport>>

\* ------------------------------------------------------------ address space
\* net_init allocates inbound_NIC, network_buffer, outbound_NIC in this
\* order, for SR_net and then RS_net.
AllocOrder(b) ==
    (IF b[1] = "SR_net" THEN 0 ELSE 3)
      + (CASE b[2] = "inbound_NIC" -> 1
           [] b[2] = "network_buffer" -> 2
           [] b[2] = "outbound_NIC" -> 3)

AddrStride == NicBytes + NetBytes + NicSlots + NetSlots + 2

buffer_data(b) ==
    IF layout = "ascending" THEN AddrStride * AllocOrder(b)
                            ELSE AddrStride * (7 - AllocOrder(b))

\* the metadata array of a buffer is allocated right after its arena
metadata_slots(b) == buffer_data(b) + buffer_size_in_bytes(b) + 1

\* the buffer whose arena holds the n units starting at address a
ArenaOf(a, n) ==
    {b \in Buffers : a >= buffer_data(b)
                       /\ a + n <= buffer_data(b) + buffer_size_in_bytes(b)}

NullSlot == <<"NULL", "NULL", 0>>
SlotPtr(b, i) == <<b[1], b[2], i>>
BufOf(p) == <<p[1], p[2]>>

ZeroCell == <<0, 0>>
ZeroMeta == [starting_address_in_buffer |-> NULL, packet_size_in_bytes |-> 0,
             status |-> "EMPTY", time_available |-> Past]

\* what a read below the first element of a metadata array may find
Garbage ==
    {[starting_address_in_buffer |-> NULL, packet_size_in_bytes |-> 0,
      status |-> s, time_available |-> Past] : s \in {"EMPTY", "RESERVED"}}

Deref(p, g) == IF p[3] < 0 THEN g ELSE meta[BufOf(p)][p[3]]

NoRecvInput == [pkt |-> "none", role |-> "none", timeout_ms |-> 0]
NoReceive == [in |-> NoRecvInput, ret |-> Pending, pkt |-> <<>>]

NoLocals ==
    [buf |-> <<"NULL", "NULL">>, write_slot |-> 0, read_slot |-> 0,
     slot |-> NullSlot, ret |-> "none",
     packet_metadata |-> NullSlot, previous_packet |-> NullSlot,
     garbage |-> ZeroMeta, my_location |-> NULL, my_size |-> 0,
     attempts |-> 0, read_start |-> NULL, acquired |-> FALSE,
     nic_packet |-> NullSlot, net_packet |-> NullSlot,
     entry_eta |-> Past, next_time_available |-> Past,
     timer |-> Past, deadline |-> Past,
     call |-> 0, role |-> "none", total |-> 0, pkt |-> <<>>,
     in |-> NoRecvInput]

InitNetwork ==
    /\ meta = [b \in Buffers |-> [i \in 0..(num_metadata_slots(b) - 1) |-> ZeroMeta]]
    /\ wcur = [b \in Buffers |-> 0]
    /\ rcur = [b \in Buffers |-> 0]
    /\ mem = [b \in Buffers |-> [o \in 0..(buffer_size_in_bytes(b) - 1) |-> ZeroCell]]
    /\ event = [b \in Buffers |-> FALSE]
    /\ simulation_begin = FALSE
    /\ simulation_end = FALSE
    /\ layout \in {"ascending", "descending"}
    /\ fault = "none"
    /\ pc = [t \in Threads |-> IF t \in SendThreads \cup RecvThreads
                               THEN "idle"
                               ELSE IF t \in ListenThreads THEN "sl_loop"
                               ELSE "begin"]
    /\ loc = [t \in Threads |-> NoLocals]
    /\ calls = <<>>
    /\ received = [t \in RecvThreads \cup ListenThreads |-> NoReceive]
    /\ delivered = <<>>

\* the application's data for a transmission: byte i of transmission id
Data(id, length) == [i \in 1..length |-> <<id, i>>]

\* a zeroed record of the sparse array (VirtualAlloc returns zeroed pages)
NoBitmap == [allocated |-> FALSE, words |-> 0, bits |-> {}]

ZeroTransmission ==
    [data |-> <<>>, number_of_packets_in_transmission |-> 0,
     packet_status_bitmap |-> NoBitmap]

NoCall == [length |-> Pending, send_ret |-> Pending, recv_ret |-> Pending,
           dest |-> <<>>, out_length |-> Pending]

\* a TRANSMISSION_INFO of the reserved, zero-filled sparse array
ZeroInfo ==
    [status_bitmap |-> NoBitmap, transmission_data |-> <<>>,
     num_packets_left |-> 0, transmission_complete_event |-> FALSE]

InitTransport ==
    /\ transmissions_in_progress = [id \in TransmissionIds |-> ZeroTransmission]
    /\ app = [id \in TransmissionIds |-> NoCall]
    /\ handed = [id \in TransmissionIds |-> {}]
    /\ built = <<>>
    /\ last_comm = 0
    /\ transmission_info_sparse_array = [id \in TransmissionIds |-> ZeroInfo]
    /\ documented = [id \in TransmissionIds |->
                        [num_packets |-> 0, packets |-> <<>>]]

Init ==
    /\ InitNetwork
    /\ InitTransport
    /\ budget = MaxSends

InitPipe ==
    /\ InitNetwork
    /\ InitTransport
    /\ budget = PipeSends

InitCursors ==
    /\ InitNetwork
    /\ InitTransport
    /\ budget = CursorSends

shared == <<meta, wcur, rcur, mem, event>>
env == <<simulation_begin, simulation_end, layout, budget>>
hist == <<calls, received, delivered>>

Running(t, at) == fault = "none" /\ pc[t] = at

\* ASSERT(x): DebugBreak() when x is false; the process stops at the
\* breakpoint unless a debugger resumes it.
AssertOutcome(x) == IF x THEN {"none"} ELSE {"none", "breakpoint"}

Goto(t, at) == pc' = [pc EXCEPT ![t] = at]

\* locals of a returned call are dead: they are cleared
ClearCursors(l) == [l EXCEPT !.write_slot = 0, !.read_slot = 0]

ClearAcquire(l) ==
    [l EXCEPT !.packet_metadata = NullSlot, !.previous_packet = NullSlot,
              !.garbage = ZeroMeta, !.my_location = NULL, !.my_size = 0,
              !.attempts = 0, !.read_start = NULL]

\* ------------------------------------------------- get_empty_buffer_slot
ges_read_write_slot(t) ==
    /\ Running(t, "ges_read_write_slot")
    /\ loc' = [loc EXCEPT ![t].write_slot = wcur[loc[t].buf]]
    /\ Goto(t, "ges_read_read_slot")
    /\ UNCHANGED <<shared, env, fault, hist>>
    /\ UNCHANGED transport

ges_read_read_slot(t) ==
    /\ Running(t, "ges_read_read_slot")
    /\ loc' = [loc EXCEPT ![t].read_slot = rcur[loc[t].buf]]
    /\ Goto(t, "ges_loop")
    /\ UNCHANGED <<shared, env, fault, hist>>
    /\ UNCHANGED transport

ges_loop(t) ==
    LET b == loc[t].buf
        size == num_metadata_slots(b)
        w == loc[t].write_slot
        r == loc[t].read_slot
    IN  /\ Running(t, "ges_loop")
        /\ IF r = w \/ w % size # r % size
           THEN /\ fault' \in AssertOutcome(w >= r)
                /\ IF meta[b][w % size].status = "EMPTY"
                   THEN /\ meta' = [meta EXCEPT ![b][w % size].status = "RESERVED"]
                        /\ loc' = [loc EXCEPT ![t] =
                                     ClearCursors([@ EXCEPT !.slot = SlotPtr(b, w % size)])]
                        /\ calls' = IF t \in SendThreads
                                    THEN [calls EXCEPT
                                            ![loc[t].call].claimed = wcur[b],
                                            ![loc[t].call].slot = w % size]
                                    ELSE calls
                        /\ Goto(t, "ges_increment")
                   ELSE /\ Goto(t, "ges_read_write_slot")
                        /\ UNCHANGED <<meta, loc, calls>>
           ELSE /\ loc' = [loc EXCEPT ![t] =
                             ClearCursors([@ EXCEPT !.slot = NullSlot])]
                /\ Goto(t, loc[t].ret)
                /\ UNCHANGED <<meta, fault, calls>>
        /\ UNCHANGED <<wcur, rcur, mem, event, env, received, delivered>>
        /\ UNCHANGED transport

ges_increment(t) ==
    /\ Running(t, "ges_increment")
    /\ wcur' = [wcur EXCEPT ![loc[t].buf] = @ + 1]
    /\ Goto(t, loc[t].ret)
    /\ UNCHANGED <<meta, rcur, mem, event, env, fault, loc, hist>>
    /\ UNCHANGED transport

\* --------------------------------------------- try_get_packet_from_buffer
tg_read_write_slot(t) ==
    /\ Running(t, "tg_read_write_slot")
    /\ loc' = [loc EXCEPT ![t].write_slot = wcur[loc[t].buf]]
    /\ Goto(t, "tg_read_read_slot")
    /\ UNCHANGED <<shared, env, fault, hist>>
    /\ UNCHANGED transport

tg_read_read_slot(t) ==
    /\ Running(t, "tg_read_read_slot")
    /\ loc' = [loc EXCEPT ![t].read_slot = rcur[loc[t].buf]]
    /\ Goto(t, "tg_loop")
    /\ UNCHANGED <<shared, env, fault, hist>>
    /\ UNCHANGED transport

tg_loop(t) ==
    LET b == loc[t].buf
        size == num_metadata_slots(b)
        w == loc[t].write_slot
        r == loc[t].read_slot
    IN  /\ Running(t, "tg_loop")
        /\ IF w # r
           THEN IF meta[b][r % size].status = "READY"
                THEN /\ meta' = [meta EXCEPT ![b][r % size].status = "READING"]
                     /\ loc' = [loc EXCEPT ![t] =
                                  ClearCursors([@ EXCEPT !.slot = SlotPtr(b, r % size)])]
                     /\ Goto(t, loc[t].ret)
                ELSE /\ Goto(t, "tg_read_write_slot")
                     /\ UNCHANGED <<meta, loc>>
           ELSE /\ loc' = [loc EXCEPT ![t] =
                             ClearCursors([@ EXCEPT !.slot = NullSlot])]
                /\ Goto(t, loc[t].ret)
                /\ UNCHANGED meta
        /\ UNCHANGED <<wcur, rcur, mem, event, env, fault, hist>>
        /\ UNCHANGED transport

\* --------------------------------------------------- acquire_buffer_space
SlotAddr(p) == metadata_slots(BufOf(p)) + p[3]

\* previous_packet = packet_metadata - 1, or the last slot of the buffer
\* when that address lies below buffer->metadata_slots
PreviousPacket(p, b) ==
    IF SlotAddr(p) - 1 < metadata_slots(b)
    THEN SlotPtr(b, num_metadata_slots(b) - 1)
    ELSE <<p[1], p[2], p[3] - 1>>

ab_previous(t) ==
    LET p == loc[t].packet_metadata
        prev == PreviousPacket(p, loc[t].buf)
    IN  /\ Running(t, "ab_previous")
        /\ \/ /\ \E g \in (IF prev[3] < 0 THEN Garbage ELSE {ZeroMeta}) :
                    loc' = [loc EXCEPT
                              ![t].my_size = meta[BufOf(p)][p[3]].packet_size_in_bytes,
                              ![t].previous_packet = prev,
                              ![t].garbage = g,
                              ![t].attempts = 0,
                              ![t].my_location =
                                  Deref(prev, g).starting_address_in_buffer]
              /\ Goto(t, "ab_spin")
              /\ UNCHANGED fault
           \/ /\ prev[3] < 0
              /\ fault' = "access_violation"
              /\ UNCHANGED <<pc, loc>>
        /\ UNCHANGED <<shared, env, hist>>
        /\ UNCHANGED transport

ab_spin(t) ==
    LET prev == Deref(loc[t].previous_packet, loc[t].garbage)
    IN  /\ Running(t, "ab_spin")
        /\ IF prev.status = "RESERVED"
           THEN /\ loc' = [loc EXCEPT ![t].attempts = @ + 1]
                /\ IF loc[t].attempts + 1 = MAX_ATTEMPTS
                   THEN Goto(t, "ab_failure") ELSE UNCHANGED pc
           ELSE /\ Goto(t, "ab_location")
                /\ UNCHANGED loc
        /\ UNCHANGED <<shared, env, fault, hist>>
        /\ UNCHANGED transport

ab_location(t) ==
    LET prev == Deref(loc[t].previous_packet, loc[t].garbage)
    IN  /\ Running(t, "ab_location")
        /\ loc' = [loc EXCEPT ![t].my_location =
                       IF prev.starting_address_in_buffer = NULL
                       THEN buffer_data(loc[t].buf)
                       ELSE @ + prev.packet_size_in_bytes]
        /\ Goto(t, "ab_read_start")
        /\ UNCHANGED <<shared, env, fault, hist>>
        /\ UNCHANGED transport

ab_read_start(t) ==
    LET b == loc[t].buf
        read_packet == meta[b][rcur[b] % num_metadata_slots(b)]
        read_start == read_packet.starting_address_in_buffer
        my_location == loc[t].my_location
        my_size == loc[t].my_size
        buffer_end == buffer_data(b) + buffer_size_in_bytes(b)
    IN  /\ Running(t, "ab_read_start")
        /\ IF read_start > my_location
           THEN /\ Goto(t, IF my_location + my_size > read_start
                           THEN "ab_failure" ELSE "ab_success")
                /\ loc' = [loc EXCEPT ![t].read_start = read_start]
           ELSE IF my_location + my_size < buffer_end
           THEN /\ Goto(t, "ab_success")
                /\ loc' = [loc EXCEPT ![t].read_start = read_start]
           ELSE /\ Goto(t, IF buffer_data(b) + my_size > read_start
                           THEN "ab_failure" ELSE "ab_success")
                /\ loc' = [loc EXCEPT ![t].read_start = read_start,
                                      ![t].my_location = buffer_data(b)]
        /\ UNCHANGED <<shared, env, fault, hist>>
        /\ UNCHANGED transport

ab_return(t, at, result) ==
    LET p == loc[t].packet_metadata
    IN  /\ Running(t, at)
        /\ meta' = [meta EXCEPT ![BufOf(p)][p[3]].starting_address_in_buffer =
                                    loc[t].my_location]
        /\ loc' = [loc EXCEPT ![t] = ClearAcquire([@ EXCEPT !.acquired = result])]
        /\ Goto(t, loc[t].ret)
        /\ UNCHANGED <<wcur, rcur, mem, event, env, fault, hist>>
        /\ UNCHANGED transport

ab_success(t) == ab_return(t, "ab_success", TRUE)

ab_failure(t) == ab_return(t, "ab_failure", FALSE)

\* ------------------------------------------------------------------ memcpy
TheArena(a, n) == CHOOSE b \in ArenaOf(a, n) : TRUE

MemRead(a, n) ==
    LET b == TheArena(a, n)
    IN  [i \in 1..n |-> mem[b][a - buffer_data(b) + i - 1]]

MemWrite(a, cells) ==
    LET b == TheArena(a, Len(cells))
        o == a - buffer_data(b)
    IN  [mem EXCEPT ![b] = [x \in DOMAIN @ |->
                              IF x >= o /\ x < o + Len(cells)
                              THEN cells[x - o + 1] ELSE @[x]]]

\* ------------------------------------------------------------- send_packet
\* the caller's packet: universal header, data/comm header, payload
PacketImage(serial, total) == [i \in 1..total |-> <<serial, i>>]

SendInputs ==
    {[pkt |-> "NULL", bytes_in_payload |-> 0, role |-> "ROLE_SENDER"],
     [pkt |-> "valid", bytes_in_payload |-> 1, role |-> "ROLE_INVALID"]}
      \cup {[pkt |-> "valid", bytes_in_payload |-> n, role |-> r] :
                n \in {0, MAX_PAYLOAD_SIZE, MAX_PAYLOAD_SIZE + 1}, r \in Roles}

SendRejectsInput(in) ==
    \/ in.pkt = "NULL"
    \/ in.bytes_in_payload > MAX_PAYLOAD_SIZE
    \/ in.role # "ROLE_SENDER" /\ in.role # "ROLE_RECEIVER"

\* a mapping that sends every role into one pipe
SendNetShared(role) == "SR_net"

SendNet(role) == IF role = "ROLE_RECEIVER" THEN "RS_net" ELSE "SR_net"

Return(t, ret) ==
    /\ calls' = [calls EXCEPT ![loc[t].call].ret = ret]
    /\ loc' = [loc EXCEPT ![t] = NoLocals]
    /\ Goto(t, "idle")

send_packet(t) ==
    /\ Running(t, "idle")
    /\ t \in SendThreads
    /\ budget > 0
    /\ budget' = budget - 1
    /\ \E in \in SendInputs :
         IF SendRejectsInput(in)
         THEN /\ calls' = Append(calls, [in |-> in, total |-> 0,
                                         claimed |-> Pending, slot |-> Pending,
                                         ret |-> PACKET_REJECTED])
              /\ UNCHANGED <<pc, loc>>
         ELSE LET total == HeaderBytes + HeaderBytes + in.bytes_in_payload
              IN  /\ calls' = Append(calls, [in |-> in, total |-> total,
                                             claimed |-> Pending, slot |-> Pending,
                                             ret |-> Pending])
                  /\ loc' = [loc EXCEPT
                               ![t].call = Len(calls) + 1,
                               ![t].role = in.role,
                               ![t].total = total,
                               ![t].buf = <<SendNet(in.role), "outbound_NIC">>,
                               ![t].ret = "sp_slot"]
                  /\ Goto(t, "ges_read_write_slot")
    /\ UNCHANGED <<shared, simulation_begin, simulation_end, layout, fault,
                   received, delivered>>
    /\ UNCHANGED transport

sp_slot(t) ==
    LET p == loc[t].slot
    IN  /\ Running(t, "sp_slot")
        /\ IF p = NullSlot
           THEN /\ fault' \in AssertOutcome(FALSE)
                /\ Return(t, PACKET_REJECTED)
                /\ UNCHANGED meta
           ELSE /\ meta' = [meta EXCEPT ![BufOf(p)][p[3]].packet_size_in_bytes =
                                           loc[t].total]
                /\ loc' = [loc EXCEPT ![t].nic_packet = p]
                /\ Goto(t, "sp_writing")
                /\ UNCHANGED <<fault, calls>>
        /\ UNCHANGED <<wcur, rcur, mem, event, env, received, delivered>>
        /\ UNCHANGED transport

\* a send_packet that publishes the claimed slot at once, before the region
\* is acquired and the bytes are copied
sp_writing_published(t) ==
    LET p == loc[t].nic_packet
    IN  /\ Running(t, "sp_writing")
        /\ meta' = [meta EXCEPT ![BufOf(p)][p[3]].status = "READY"]
        /\ loc' = [loc EXCEPT ![t].packet_metadata = p,
                              ![t].ret = "sp_acquired"]
        /\ Goto(t, "ab_previous")
        /\ UNCHANGED <<wcur, rcur, mem, event, env, fault, hist>>
        /\ UNCHANGED transport

sp_writing(t) ==
    LET p == loc[t].nic_packet
    IN  /\ Running(t, "sp_writing")
        /\ meta' = [meta EXCEPT ![BufOf(p)][p[3]].status = "WRITING"]
        /\ loc' = [loc EXCEPT ![t].packet_metadata = p,
                              ![t].ret = "sp_acquired"]
        /\ Goto(t, "ab_previous")
        /\ UNCHANGED <<wcur, rcur, mem, event, env, fault, hist>>
        /\ UNCHANGED transport

sp_acquired(t) ==
    LET p == loc[t].nic_packet
    IN  /\ Running(t, "sp_acquired")
        /\ IF loc[t].acquired
           THEN /\ Goto(t, "sp_memcpy")
                /\ UNCHANGED <<meta, fault, loc, calls>>
           ELSE /\ meta' = [meta EXCEPT ![BufOf(p)][p[3]].status = "EMPTY"]
                /\ fault' \in AssertOutcome(FALSE)
                /\ Return(t, PACKET_REJECTED)
        /\ UNCHANGED <<wcur, rcur, mem, event, env, received, delivered>>
        /\ UNCHANGED transport

sp_memcpy(t) ==
    LET p == loc[t].nic_packet
        m == meta[BufOf(p)][p[3]]
        dst == m.starting_address_in_buffer
        n == m.packet_size_in_bytes
    IN  /\ Running(t, "sp_memcpy")
        /\ IF ArenaOf(dst, n) # {}
           THEN /\ mem' = MemWrite(dst, PacketImage(loc[t].call, n))
                /\ Goto(t, "sp_ready")
                /\ UNCHANGED <<meta, fault, loc, calls>>
           ELSE /\ meta' = [meta EXCEPT ![BufOf(p)][p[3]].status = "EMPTY"]
                /\ fault' \in AssertOutcome(FALSE)
                /\ Return(t, PACKET_REJECTED)
                /\ UNCHANGED mem
        /\ UNCHANGED <<wcur, rcur, event, env, received, delivered>>
        /\ UNCHANGED transport

sp_ready(t) ==
    LET p == loc[t].nic_packet
    IN  /\ Running(t, "sp_ready")
        /\ meta' = [meta EXCEPT ![BufOf(p)][p[3]].status = "READY"]
        /\ Goto(t, "sp_set_event")
        /\ UNCHANGED <<wcur, rcur, mem, event, env, fault, loc, hist>>
        /\ UNCHANGED transport

sp_set_event(t) ==
    /\ Running(t, "sp_set_event")
    /\ event' = [event EXCEPT ![loc[t].buf] = TRUE]
    /\ Return(t, PACKET_ACCEPTED)
    /\ UNCHANGED <<meta, wcur, rcur, mem, env, fault, received, delivered>>
    /\ UNCHANGED transport

SendStep(t) ==
    \/ send_packet(t) \/ sp_slot(t) \/ sp_writing(t) \/ sp_acquired(t)
    \/ sp_memcpy(t) \/ sp_ready(t) \/ sp_set_event(t)

\* ------------------------------------------------------ NIC_to_wire_thread
ThreadExit(t) ==
    /\ loc' = [loc EXCEPT ![t] = NoLocals]
    /\ Goto(t, "done")

\* WaitForMultipleObjects / WaitForSingleObject: over when an event is set
\* or the timeout has elapsed
WaitOver(t, b) == simulation_end \/ event[b] \/ loc[t].timer <= 0

n2w_begin(n) ==
    LET t == NicToWire[n]
    IN  /\ Running(t, "begin")
        /\ simulation_begin
        /\ loc' = [loc EXCEPT ![t].timer = NET_RETRY_MS]
        /\ Goto(t, "n2w_wait")
        /\ UNCHANGED <<shared, env, fault, hist>>
        /\ UNCHANGED transport

n2w_wait(n) ==
    LET t == NicToWire[n]
        nic_buffer == <<n, "outbound_NIC">>
    IN  /\ Running(t, "n2w_wait")
        /\ WaitOver(t, nic_buffer)
        /\ IF simulation_end
           THEN ThreadExit(t)
           ELSE /\ loc' = [loc EXCEPT ![t].timer = Past,
                                      ![t].buf = nic_buffer,
                                      ![t].ret = "n2w_got"]
                /\ Goto(t, "tg_read_write_slot")
        /\ UNCHANGED <<shared, env, fault, hist>>
        /\ UNCHANGED transport

n2w_got(n) ==
    LET t == NicToWire[n]
    IN  /\ Running(t, "n2w_got")
        /\ IF loc[t].slot = NullSlot
           THEN /\ Goto(t, "n2w_reset")
                /\ UNCHANGED loc
           ELSE /\ loc' = [loc EXCEPT ![t].nic_packet = loc[t].slot,
                                      ![t].buf = <<n, "network_buffer">>,
                                      ![t].ret = "n2w_slot"]
                /\ Goto(t, "ges_read_write_slot")
        /\ UNCHANGED <<shared, env, fault, hist>>
        /\ UNCHANGED transport

n2w_reset(n) ==
    LET t == NicToWire[n]
    IN  /\ Running(t, "n2w_reset")
        /\ event' = [event EXCEPT ![<<n, "outbound_NIC">>] = FALSE]
        /\ loc' = [loc EXCEPT ![t].timer = NET_RETRY_MS]
        /\ Goto(t, "n2w_wait")
        /\ UNCHANGED <<meta, wcur, rcur, mem, env, fault, hist>>
        /\ UNCHANGED transport

n2w_slot(n) ==
    LET t == NicToWire[n]
        p == loc[t].slot
        q == loc[t].nic_packet
    IN  /\ Running(t, "n2w_slot")
        /\ IF p = NullSlot
           THEN /\ fault' \in AssertOutcome(FALSE)
                /\ ThreadExit(t)
                /\ UNCHANGED meta
           ELSE /\ meta' = [meta EXCEPT ![BufOf(p)][p[3]].packet_size_in_bytes =
                                  meta[BufOf(q)][q[3]].packet_size_in_bytes]
                /\ loc' = [loc EXCEPT ![t].net_packet = p]
                /\ Goto(t, "n2w_writing")
                /\ UNCHANGED fault
        /\ UNCHANGED <<wcur, rcur, mem, event, env, hist>>
        /\ UNCHANGED transport

n2w_writing(n) ==
    LET t == NicToWire[n]
        p == loc[t].net_packet
    IN  /\ Running(t, "n2w_writing")
        /\ meta' = [meta EXCEPT ![BufOf(p)][p[3]].status = "WRITING"]
        /\ loc' = [loc EXCEPT ![t].packet_metadata = p,
                              ![t].ret = "n2w_acquired"]
        /\ Goto(t, "ab_previous")
        /\ UNCHANGED <<wcur, rcur, mem, event, env, fault, hist>>
        /\ UNCHANGED transport

n2w_acquired(n) ==
    LET t == NicToWire[n]
    IN  /\ Running(t, "n2w_acquired")
        /\ IF loc[t].acquired
           THEN /\ Goto(t, "n2w_memcpy")
                /\ UNCHANGED <<fault, loc>>
           ELSE /\ fault' \in AssertOutcome(FALSE)
                /\ ThreadExit(t)
        /\ UNCHANGED <<shared, env, hist>>
        /\ UNCHANGED transport

\* memcpy outside a try block: an address range that is not inside a
\* buffer's arena stops the process
n2w_memcpy(n) ==
    LET t == NicToWire[n]
        net_packet == Deref(loc[t].net_packet, ZeroMeta)
        nic_packet == Deref(loc[t].nic_packet, ZeroMeta)
        dst == net_packet.starting_address_in_buffer
        src == nic_packet.starting_address_in_buffer
        len == nic_packet.packet_size_in_bytes
    IN  /\ Running(t, "n2w_memcpy")
        /\ IF ArenaOf(dst, len) # {} /\ ArenaOf(src, len) # {}
           THEN /\ mem' = MemWrite(dst, MemRead(src, len))
                /\ Goto(t, "n2w_stamp")
                /\ UNCHANGED fault
           ELSE /\ fault' = "access_violation"
                /\ UNCHANGED <<mem, pc>>
        /\ UNCHANGED <<meta, wcur, rcur, event, env, loc, hist>>
        /\ UNCHANGED transport

n2w_stamp(n) ==
    LET t == NicToWire[n]
        p == loc[t].net_packet
    IN  /\ Running(t, "n2w_stamp")
        /\ meta' = [meta EXCEPT ![BufOf(p)][p[3]].time_available =
                                    time_now_ms + LATENCY_MS]
        /\ Goto(t, "n2w_ready")
        /\ UNCHANGED <<wcur, rcur, mem, event, env, fault, loc, hist>>
        /\ UNCHANGED transport

n2w_ready(n) ==
    LET t == NicToWire[n]
        p == loc[t].net_packet
    IN  /\ Running(t, "n2w_ready")
        /\ meta' = [meta EXCEPT ![BufOf(p)][p[3]].status = "READY"]
        /\ Goto(t, "n2w_increment")
        /\ UNCHANGED <<wcur, rcur, mem, event, env, fault, loc, hist>>
        /\ UNCHANGED transport

n2w_increment(n) ==
    LET t == NicToWire[n]
    IN  /\ Running(t, "n2w_increment")
        /\ rcur' = [rcur EXCEPT ![<<n, "outbound_NIC">>] = @ + 1]
        /\ Goto(t, "n2w_free")
        /\ UNCHANGED <<meta, wcur, mem, event, env, fault, loc, hist>>
        /\ UNCHANGED transport

n2w_free(n) ==
    LET t == NicToWire[n]
        q == loc[t].nic_packet
    IN  /\ Running(t, "n2w_free")
        /\ meta' = [meta EXCEPT ![BufOf(q)][q[3]].status = "EMPTY"]
        /\ Goto(t, "n2w_set_event")
        /\ UNCHANGED <<wcur, rcur, mem, event, env, fault, loc, hist>>
        /\ UNCHANGED transport

n2w_set_event(n) ==
    LET t == NicToWire[n]
    IN  /\ Running(t, "n2w_set_event")
        /\ event' = [event EXCEPT ![<<n, "network_buffer">>] = TRUE]
        /\ loc' = [loc EXCEPT ![t] = [NoLocals EXCEPT
                                        !.buf = <<n, "outbound_NIC">>,
                                        !.ret = "n2w_got"]]
        /\ Goto(t, "tg_read_write_slot")
        /\ UNCHANGED <<meta, wcur, rcur, mem, env, fault, hist>>
        /\ UNCHANGED transport

NicToWireStep(n) ==
    \/ n2w_begin(n) \/ n2w_wait(n) \/ n2w_got(n) \/ n2w_reset(n)
    \/ n2w_slot(n) \/ n2w_writing(n) \/ n2w_acquired(n) \/ n2w_memcpy(n)
    \/ n2w_stamp(n) \/ n2w_ready(n) \/ n2w_increment(n) \/ n2w_free(n)
    \/ n2w_set_event(n)

\* ------------------------------------------------------ wire_to_NIC_thread
w2n_begin(n) ==
    LET t == WireToNic[n]
    IN  /\ Running(t, "begin")
        /\ simulation_begin
        /\ Goto(t, "w2n_loop")
        /\ UNCHANGED <<shared, env, fault, loc, hist>>
        /\ UNCHANGED transport

w2n_loop(n) ==
    LET t == WireToNic[n]
    IN  /\ Running(t, "w2n_loop")
        /\ loc' = [loc EXCEPT ![t] = [NoLocals EXCEPT
                                        !.next_time_available = UINT64_MAX,
                                        !.buf = <<n, "network_buffer">>,
                                        !.ret = "w2n_got"]]
        /\ Goto(t, "tg_read_write_slot")
        /\ UNCHANGED <<shared, env, fault, hist>>
        /\ UNCHANGED transport

w2n_got(n) ==
    LET t == WireToNic[n]
        p == loc[t].slot
    IN  /\ Running(t, "w2n_got")
        /\ IF p = NullSlot
           THEN /\ Goto(t, "w2n_after")
                /\ UNCHANGED loc
           ELSE /\ loc' = [loc EXCEPT ![t].net_packet = p,
                                      ![t].entry_eta =
                                          meta[BufOf(p)][p[3]].time_available]
                /\ Goto(t, "w2n_check_eta")
        /\ UNCHANGED <<shared, env, fault, hist>>
        /\ UNCHANGED transport

\* a wire_to_NIC thread that takes the head packet whatever its time
w2n_check_eta_any(n) ==
    LET t == WireToNic[n]
    IN  /\ Running(t, "w2n_check_eta")
        /\ loc' = [loc EXCEPT ![t].entry_eta = Past,
                              ![t].buf = <<n, "inbound_NIC">>,
                              ![t].ret = "w2n_slot"]
        /\ Goto(t, "ges_read_write_slot")
        /\ UNCHANGED <<shared, env, fault, hist>>
        /\ UNCHANGED transport

w2n_check_eta(n) ==
    LET t == WireToNic[n]
    IN  /\ Running(t, "w2n_check_eta")
        /\ IF loc[t].entry_eta > time_now_ms
           THEN /\ loc' = [loc EXCEPT ![t].next_time_available = loc[t].entry_eta,
                                      ![t].entry_eta = Past]
                /\ Goto(t, "w2n_after")
           ELSE /\ loc' = [loc EXCEPT ![t].entry_eta = Past,
                                      ![t].buf = <<n, "inbound_NIC">>,
                                      ![t].ret = "w2n_slot"]
                /\ Goto(t, "ges_read_write_slot")
        /\ UNCHANGED <<shared, env, fault, hist>>
        /\ UNCHANGED transport

w2n_slot(n) ==
    LET t == WireToNic[n]
        p == loc[t].slot
        q == loc[t].net_packet
    IN  /\ Running(t, "w2n_slot")
        /\ IF p = NullSlot
           THEN /\ Goto(t, "w2n_drop")
                /\ UNCHANGED <<meta, loc>>
           ELSE /\ meta' = [meta EXCEPT ![BufOf(p)][p[3]].packet_size_in_bytes =
                                  meta[BufOf(q)][q[3]].packet_size_in_bytes]
                /\ loc' = [loc EXCEPT ![t].nic_packet = p]
                /\ Goto(t, "w2n_writing")
        /\ UNCHANGED <<wcur, rcur, mem, event, env, fault, hist>>
        /\ UNCHANGED transport

\* the packet is dropped: net_packet->status = EMPTY
w2n_drop(n) ==
    LET t == WireToNic[n]
        q == loc[t].net_packet
    IN  /\ Running(t, "w2n_drop")
        /\ meta' = [meta EXCEPT ![BufOf(q)][q[3]].status = "EMPTY"]
        /\ Goto(t, "w2n_drop_increment")
        /\ UNCHANGED <<wcur, rcur, mem, event, env, fault, loc, hist>>
        /\ UNCHANGED transport

\* net_buffer->metadata_read_slot++; continue
w2n_drop_increment(n) ==
    LET t == WireToNic[n]
    IN  /\ Running(t, "w2n_drop_increment")
        /\ rcur' = [rcur EXCEPT ![<<n, "network_buffer">>] = @ + 1]
        /\ loc' = [loc EXCEPT ![t] = [NoLocals EXCEPT
                        !.next_time_available = loc[t].next_time_available,
                        !.buf = <<n, "network_buffer">>,
                        !.ret = "w2n_got"]]
        /\ Goto(t, "tg_read_write_slot")
        /\ UNCHANGED <<meta, wcur, mem, event, env, fault, hist>>
        /\ UNCHANGED transport

\* acquire_buffer_space is handed net_packet, the slot of the wire
w2n_writing(n) ==
    LET t == WireToNic[n]
        p == loc[t].nic_packet
    IN  /\ Running(t, "w2n_writing")
        /\ meta' = [meta EXCEPT ![BufOf(p)][p[3]].status = "WRITING"]
        /\ loc' = [loc EXCEPT ![t].packet_metadata = loc[t].net_packet,
                              ![t].ret = "w2n_acquired"]
        /\ Goto(t, "ab_previous")
        /\ UNCHANGED <<wcur, rcur, mem, event, env, fault, hist>>
        /\ UNCHANGED transport

w2n_acquired(n) ==
    LET t == WireToNic[n]
        p == loc[t].nic_packet
    IN  /\ Running(t, "w2n_acquired")
        /\ IF loc[t].acquired
           THEN /\ Goto(t, "w2n_memcpy")
                /\ UNCHANGED meta
           ELSE /\ meta' = [meta EXCEPT ![BufOf(p)][p[3]].status = "EMPTY"]
                /\ Goto(t, "w2n_drop")
        /\ UNCHANGED <<wcur, rcur, mem, event, env, fault, loc, hist>>
        /\ UNCHANGED transport

\* memcpy(nic_packet->..., net_packet->..., ...) and the four statements
\* that publish the packet: one step each
w2n_transfer(n) ==
    LET t == WireToNic[n]
        p == loc[t].nic_packet
        q == loc[t].net_packet
        nic_packet == Deref(p, ZeroMeta)
        net_packet == Deref(q, ZeroMeta)
        dst == nic_packet.starting_address_in_buffer
        src == net_packet.starting_address_in_buffer
        len == net_packet.packet_size_in_bytes
    IN  /\ fault = "none"
        /\ CASE pc[t] = "w2n_memcpy" ->
                  IF ArenaOf(dst, len) # {} /\ ArenaOf(src, len) # {}
                  THEN /\ mem' = MemWrite(dst, MemRead(src, len))
                       /\ Goto(t, "w2n_increment")
                       /\ UNCHANGED <<meta, rcur, event, fault, loc>>
                  ELSE /\ fault' = "access_violation"
                       /\ UNCHANGED <<meta, rcur, mem, event, pc, loc>>
             [] pc[t] = "w2n_increment" ->
                  /\ rcur' = [rcur EXCEPT ![<<n, "network_buffer">>] = @ + 1]
                  /\ Goto(t, "w2n_free")
                  /\ UNCHANGED <<meta, mem, event, fault, loc>>
             [] pc[t] = "w2n_free" ->
                  /\ meta' = [meta EXCEPT ![BufOf(q)][q[3]].status = "EMPTY"]
                  /\ Goto(t, "w2n_ready")
                  /\ UNCHANGED <<rcur, mem, event, fault, loc>>
             [] pc[t] = "w2n_ready" ->
                  /\ meta' = [meta EXCEPT ![BufOf(p)][p[3]].status = "READY"]
                  /\ Goto(t, "w2n_set_event")
                  /\ UNCHANGED <<rcur, mem, event, fault, loc>>
             [] pc[t] = "w2n_set_event" ->
                  /\ event' = [event EXCEPT ![<<n, "inbound_NIC">>] = TRUE]
                  /\ loc' = [loc EXCEPT ![t] = [NoLocals EXCEPT
                        !.next_time_available = loc[t].next_time_available,
                        !.buf = <<n, "network_buffer">>,
                        !.ret = "w2n_got"]]
                  /\ Goto(t, "tg_read_write_slot")
                  /\ UNCHANGED <<meta, rcur, mem, fault>>
             [] OTHER -> FALSE
        /\ UNCHANGED <<wcur, env, hist>>
        /\ UNCHANGED transport

\* after the scan: loop again, or work out how long to sleep
w2n_after(n) ==
    LET t == WireToNic[n]
        next == loc[t].next_time_available
    IN  /\ Running(t, "w2n_after")
        /\ IF next <= time_now_ms
           THEN /\ Goto(t, "w2n_loop")
                /\ UNCHANGED <<event, loc>>
           ELSE IF next = UINT64_MAX
           THEN /\ event' = [event EXCEPT ![<<n, "network_buffer">>] = FALSE]
                /\ loc' = [loc EXCEPT ![t] = [NoLocals EXCEPT
                                                !.timer = NET_RETRY_MS]]
                /\ Goto(t, "w2n_wait")
           ELSE /\ Goto(t, "w2n_timeout")
                /\ UNCHANGED <<event, loc>>
        /\ UNCHANGED <<meta, wcur, rcur, mem, env, fault, hist>>
        /\ UNCHANGED transport

\* time_to_next_wakeup = next_time_available - time_now_ms(), unsigned
w2n_timeout(n) ==
    LET t == WireToNic[n]
        next == loc[t].next_time_available
    IN  /\ Running(t, "w2n_timeout")
        /\ loc' = [loc EXCEPT ![t] = [NoLocals EXCEPT !.timer =
                        IF next - time_now_ms < 0 THEN UINT64_MAX
                        ELSE next - time_now_ms]]
        /\ Goto(t, "w2n_wait")
        /\ UNCHANGED <<shared, env, fault, hist>>
        /\ UNCHANGED transport

w2n_wait(n) ==
    LET t == WireToNic[n]
    IN  /\ Running(t, "w2n_wait")
        /\ WaitOver(t, <<n, "network_buffer">>)
        /\ IF simulation_end
           THEN ThreadExit(t)
           ELSE /\ loc' = [loc EXCEPT ![t] = NoLocals]
                /\ Goto(t, "w2n_loop")
        /\ UNCHANGED <<shared, env, fault, hist>>
        /\ UNCHANGED transport

WireToNicStep(n) ==
    \/ w2n_begin(n) \/ w2n_loop(n) \/ w2n_got(n) \/ w2n_check_eta(n)
    \/ w2n_slot(n) \/ w2n_drop(n) \/ w2n_drop_increment(n) \/ w2n_writing(n)
    \/ w2n_acquired(n) \/ w2n_transfer(n) \/ w2n_after(n) \/ w2n_timeout(n)
    \/ w2n_wait(n)

\* ---------------------------------------------------------- receive_packet
RecvInputs ==
    {[pkt |-> "NULL", role |-> "ROLE_RECEIVER", timeout_ms |-> 0],
     [pkt |-> "valid", role |-> "ROLE_INVALID", timeout_ms |-> 0]}
      \cup {[pkt |-> "valid", role |-> r, timeout_ms |-> ms] :
                r \in Roles, ms \in {0, NET_RETRY_MS}}

RecvRejectsInput(in) ==
    \/ in.pkt = "NULL"
    \/ in.role # "ROLE_SENDER" /\ in.role # "ROLE_RECEIVER"

RecvNet(role) == IF role = "ROLE_SENDER" THEN "RS_net" ELSE "SR_net"

RecvReturn(t, ret, bytes) ==
    /\ received' = [received EXCEPT ![t] =
                       [in |-> loc[t].in, ret |-> ret, pkt |-> bytes]]
    /\ loc' = [loc EXCEPT ![t] = NoLocals]
    /\ Goto(t, IF t \in ListenThreads THEN "sl_returned" ELSE "idle")

receive_packet(t) ==
    /\ Running(t, "idle")
    /\ t \in RecvThreads
    /\ \E in \in RecvInputs :
         IF RecvRejectsInput(in)
         THEN /\ received' = [received EXCEPT ![t] =
                      [in |-> in, ret |-> NO_PACKET_AVAILABLE, pkt |-> <<>>]]
              /\ UNCHANGED <<pc, loc>>
         ELSE /\ loc' = [loc EXCEPT
                           ![t].in = in,
                           ![t].deadline = time_now_ms + in.timeout_ms,
                           ![t].buf = <<RecvNet(in.role), "inbound_NIC">>,
                           ![t].ret = "rp_got"]
              /\ Goto(t, "tg_read_write_slot")
              /\ UNCHANGED received
    /\ UNCHANGED <<shared, env, fault, calls, delivered>>
    /\ UNCHANGED transport

\* the statements that follow try_get_packet_from_buffer: one step each
rp_got(t) ==
    LET p == loc[t].slot
        m == Deref(p, ZeroMeta)
        src == m.starting_address_in_buffer
        len == m.packet_size_in_bytes
        nic == loc[t].buf
    IN  /\ fault = "none"
        /\ CASE pc[t] = "rp_got" /\ p = NullSlot ->
                  /\ event' = [event EXCEPT ![nic] = FALSE]
                  /\ loc' = [loc EXCEPT ![t].timer = NET_RETRY_MS]
                  /\ Goto(t, "rp_wait")
                  /\ UNCHANGED <<meta, rcur, fault, received, delivered>>
             [] pc[t] = "rp_got" /\ p # NullSlot ->
                  /\ fault' \in AssertOutcome(m.status = "READING")
                  /\ IF ArenaOf(src, len) # {}
                     THEN /\ loc' = [loc EXCEPT ![t].pkt = MemRead(src, len)]
                          /\ Goto(t, "rp_increment")
                          /\ UNCHANGED <<meta, received>>
                     ELSE /\ meta' = [meta EXCEPT ![BufOf(p)][p[3]].status = "READY"]
                          /\ RecvReturn(t, PACKET_REJECTED, <<>>)
                  /\ UNCHANGED <<rcur, event, delivered>>
             [] pc[t] = "rp_increment" ->
                  /\ rcur' = [rcur EXCEPT ![nic] = @ + 1]
                  /\ Goto(t, "rp_free")
                  /\ UNCHANGED <<meta, event, fault, loc, received, delivered>>
             [] pc[t] = "rp_free" ->
                  /\ meta' = [meta EXCEPT ![BufOf(p)][p[3]].status = "EMPTY"]
                  /\ delivered' = Append(delivered,
                                         [role |-> loc[t].in.role, pkt |-> loc[t].pkt])
                  /\ RecvReturn(t, PACKET_RECEIVED, loc[t].pkt)
                  /\ UNCHANGED <<rcur, event, fault>>
             [] OTHER -> FALSE
        /\ UNCHANGED <<wcur, mem, env, calls>>
        /\ UNCHANGED transport

rp_wait(t) ==
    /\ Running(t, "rp_wait")
    /\ event[loc[t].buf] \/ loc[t].timer <= 0
    /\ loc' = [loc EXCEPT ![t].timer = Past]
    /\ Goto(t, "rp_check_deadline")
    /\ UNCHANGED <<shared, env, fault, hist>>
    /\ UNCHANGED transport

rp_check_deadline(t) ==
    /\ Running(t, "rp_check_deadline")
    /\ IF time_now_ms > loc[t].deadline
       THEN /\ RecvReturn(t, NO_PACKET_AVAILABLE, <<>>)
       ELSE /\ loc' = [loc EXCEPT ![t].ret = "rp_got"]
            /\ Goto(t, "tg_read_write_slot")
            /\ UNCHANGED received
    /\ UNCHANGED <<shared, env, fault, calls, delivered>>
    /\ UNCHANGED transport

ReceiveStep(t) ==
    \/ receive_packet(t) \/ rp_got(t) \/ rp_wait(t) \/ rp_check_deadline(t)

ProducerStep(t) ==
    \/ ges_read_write_slot(t) \/ ges_read_read_slot(t) \/ ges_loop(t)
    \/ ges_increment(t)
    \/ ab_previous(t) \/ ab_spin(t) \/ ab_location(t) \/ ab_read_start(t)
    \/ ab_success(t) \/ ab_failure(t)

ConsumerStep(t) ==
    \/ tg_read_write_slot(t) \/ tg_read_read_slot(t) \/ tg_loop(t)

\* ------------------------------------------------------------- environment
begin_simulation ==
    /\ fault = "none"
    /\ ~simulation_begin
    /\ simulation_begin' = TRUE
    /\ UNCHANGED <<shared, simulation_end, layout, budget, fault, pc, loc, hist>>
    /\ UNCHANGED transport

end_simulation ==
    /\ fault = "none"
    /\ simulation_begin /\ ~simulation_end
    /\ simulation_end' = TRUE
    /\ UNCHANGED <<shared, simulation_begin, layout, budget, fault, pc, loc, hist>>
    /\ UNCHANGED transport

\* one millisecond passes
Later(x) == IF x = UINT64_MAX \/ x = Past THEN x ELSE x - 1

Tick ==
    /\ fault = "none"
    /\ meta' = [b \in Buffers |-> [i \in DOMAIN meta[b] |->
                   [meta[b][i] EXCEPT !.time_available = Later(@)]]]
    /\ loc' = [t \in Threads |->
                   [loc[t] EXCEPT !.entry_eta = Later(@),
                                  !.next_time_available = Later(@),
                                  !.timer = Later(@),
                                  !.deadline = Later(@)]]
    /\ UNCHANGED <<wcur, rcur, mem, event, env, fault, pc, hist>>
    /\ UNCHANGED transport

\* ---------------------------------------------------------- transport layer
\* malloc(bytes): a block of uninitialised memory; its 64-bit words hold
\* whatever the heap held before
Malloc(bytes, n) ==
    {[allocated |-> TRUE, words |-> (bytes + 7) \div 8, bits |-> g] :
        g \in SUBSET (0..(n - 1))}

send_transmission(transmission_id, length) ==
    LET num_packets == length \div MAX_PAYLOAD_SIZE
    IN  /\ fault = "none"
        /\ app[transmission_id].send_ret = Pending
        /\ \E bitmap \in Malloc((num_packets + 7) \div 8, num_packets) :
              transmissions_in_progress' =
                  [transmissions_in_progress EXCEPT ![transmission_id] =
                      [data |-> Data(transmission_id, length),
                       number_of_packets_in_transmission |-> num_packets,
                       packet_status_bitmap |-> bitmap]]
        /\ app' = [app EXCEPT ![transmission_id].length = length,
                              ![transmission_id].send_ret = TRANSMISSION_ACCEPTED]
        /\ last_comm' = 0
        /\ UNCHANGED <<netvars, fault, handed, built, rx>>

\* a receive_transmission that stores a length before it times out
receive_transmission_storing(transmission_id, timeout_ms) ==
    /\ fault = "none"
    /\ app' = [app EXCEPT ![transmission_id].recv_ret = NO_TRANSMISSION_AVAILABLE,
                          ![transmission_id].out_length = 0]
    /\ last_comm' = 0
    /\ UNCHANGED <<netvars, fault, transmissions_in_progress, handed, built, rx>>

receive_transmission(transmission_id, timeout_ms) ==
    /\ fault = "none"
    /\ app' = [app EXCEPT ![transmission_id].recv_ret = NO_TRANSMISSION_AVAILABLE]
    /\ last_comm' = 0
    /\ UNCHANGED <<netvars, fault, transmissions_in_progress, handed, built, rx>>

\* the comm packets the listener may be handed: the code checks no field
CommPackets ==
    UNION {{[transmission_id |-> id, first_packet_index |-> f,
             n_bits_to_read |-> k, bitmap |-> b] :
               id \in TransmissionIds, f \in {0, FarIndex},
               b \in SUBSET (0..(k - 1))} : k \in 0..MaxBits}

\* packet_status_bitmap[packet_index / 64] |= 1ULL << (packet_index % 64)
\* on the records tip.  A word inside the block gets the bit.  A NULL
\* bitmap faults.  A word beyond the block is outside every object of the
\* program: the store faults, or lands in unused heap, or lands in the
\* block the heap placed next, which is another transmission's bitmap.
SetBit(tip, id, packet_index) ==
    LET bm == tip[id].packet_status_bitmap
        w == packet_index \div BitsPerWord
    IN  IF ~bm.allocated
        THEN {[tip |-> tip, fault |-> "access_violation"]}
        ELSE IF w < bm.words
        THEN {[tip |-> [tip EXCEPT ![id].packet_status_bitmap.bits =
                                       @ \cup {packet_index}],
               fault |-> "none"]}
        ELSE {[tip |-> tip, fault |-> "access_violation"],
              [tip |-> tip, fault |-> "none"]}
             \cup {[tip |-> [tip EXCEPT ![o].packet_status_bitmap.bits =
                                 @ \cup {packet_index % BitsPerWord}],
                    fault |-> "none"] :
                     o \in {x \in TransmissionIds \ {id} :
                              tip[x].packet_status_bitmap.words > 0}}

\* the for loop of sender_listener from bit i on
RECURSIVE ListenerLoop(_, _, _)
ListenerLoop(packet, i, tip) ==
    IF i >= packet.n_bits_to_read
    THEN {[tip |-> tip, fault |-> "none"]}
    ELSE IF i \notin packet.bitmap
    THEN ListenerLoop(packet, i + 1, tip)
    ELSE UNION {IF o.fault # "none" THEN {o}
                ELSE ListenerLoop(packet, i + 1, o.tip) :
                  o \in SetBit(tip, packet.transmission_id,
                               packet.first_packet_index + i)}

\* one iteration of the listener's while loop on a comm packet that
\* receive_packet returned
sender_listener(packet) ==
    /\ fault = "none"
    /\ \E o \in ListenerLoop(packet, 0, transmissions_in_progress) :
          /\ transmissions_in_progress' = o.tip
          /\ fault' = o.fault
    /\ last_comm' = packet.transmission_id
    /\ UNCHANGED <<netvars, app, handed, built, rx>>

\* the listener thread: receive_packet((PPACKET) &packet, timeout_ms,
\* ROLE_SENDER) at the head of its while (TRUE) loop
sl_receive(t) ==
    LET in == [pkt |-> "valid", role |-> "ROLE_SENDER",
               timeout_ms |-> ListenerTimeout]
    IN  /\ Running(t, "sl_loop")
        /\ t \in ListenThreads
        /\ loc' = [loc EXCEPT
                      ![t].in = in,
                      ![t].deadline = time_now_ms + in.timeout_ms,
                      ![t].buf = <<RecvNet(in.role), "inbound_NIC">>,
                      ![t].ret = "rp_got"]
        /\ Goto(t, "tg_read_write_slot")
        /\ UNCHANGED <<shared, env, fault, hist>>
        /\ UNCHANGED transport

\* receive_packet has returned: continue on NO_PACKET_AVAILABLE, otherwise
\* the for loop over the comm packet; either way the while loop goes round
sl_returned(t) ==
    /\ Running(t, "sl_returned")
    /\ IF received[t].ret = NO_PACKET_AVAILABLE
       THEN UNCHANGED <<fault, transport>>
       ELSE /\ \E packet \in CommPackets :
                 \E o \in ListenerLoop(packet, 0, transmissions_in_progress) :
                    /\ transmissions_in_progress' = o.tip
                    /\ fault' = o.fault
                    /\ last_comm' = packet.transmission_id
            /\ UNCHANGED <<app, handed, built, rx>>
    /\ Goto(t, "sl_loop")
    /\ UNCHANGED <<shared, env, loc, hist>>

ListenerStep(t) ==
    \/ sl_receive(t) \/ sl_returned(t) \/ ConsumerStep(t)
    \/ rp_got(t) \/ rp_wait(t) \/ rp_check_deadline(t)

\* ------------------------------------------------------- receiver records
\* VirtualAlloc: committed memory is zero-filled
init_received_transmission(id, num_packets) ==
    /\ fault = "none"
    /\ documented[id].num_packets = 0
    /\ transmission_info_sparse_array' =
          [transmission_info_sparse_array EXCEPT ![id] =
              [status_bitmap |-> [allocated |-> TRUE,
                                  words |-> (num_packets + 63) \div 64,
                                  bits |-> {}],
               transmission_data |->
                   [i \in 1..(num_packets * MAX_PAYLOAD_SIZE) |-> ZeroCell],
               num_packets_left |-> num_packets,
               transmission_complete_event |-> FALSE]]
    /\ documented' = [documented EXCEPT ![id].num_packets = num_packets]
    /\ UNCHANGED <<netvars, fault, transmissions_in_progress, app, handed, built,
                   last_comm>>

\* the data packets of the transmissions: an index below the packet
\* count, one of two payloads
DataPackets ==
    {[transmission_id |-> id, index_in_transmission |-> k, data |-> d] :
        id \in TransmissionIds, k \in 0..(MaxBits - 1), d \in {1, 2}}

Payload(pkt) == [i \in 1..MAX_PAYLOAD_SIZE |-> <<pkt.data, i>>]

\* output = _interlockedbittestandset64(...) is the bit's old value; the
\* function returns when it is 0, and otherwise copies the payload at
\* packetNumber * payload size and decrements num_packets_left, a ULONG64
document_received_transmission(pkt) ==
    LET info == transmission_info_sparse_array[pkt.transmission_id]
        k == pkt.index_in_transmission
        output == IF k \in info.status_bitmap.bits THEN 1 ELSE 0
        packetsLeft == IF info.num_packets_left = 0 THEN UINT64_MAX
                       ELSE info.num_packets_left - 1
        bitSet == [info EXCEPT !.status_bitmap.bits = @ \cup {k}]
    IN  /\ fault = "none"
        /\ k < documented[pkt.transmission_id].num_packets
        /\ Len(documented[pkt.transmission_id].packets) < MaxArrivals
        /\ documented' = [documented EXCEPT
                             ![pkt.transmission_id].packets = Append(@, pkt)]
        /\ IF output = 0
           THEN /\ transmission_info_sparse_array' =
                     [transmission_info_sparse_array EXCEPT
                         ![pkt.transmission_id] = bitSet]
                /\ UNCHANGED fault
           ELSE /\ transmission_info_sparse_array' =
                     [transmission_info_sparse_array EXCEPT
                         ![pkt.transmission_id] =
                            [bitSet EXCEPT
                               !.transmission_data =
                                   [i \in DOMAIN @ |->
                                      IF /\ i > k * MAX_PAYLOAD_SIZE
                                         /\ i <= (k + 1) * MAX_PAYLOAD_SIZE
                                      THEN Payload(pkt)[i - k * MAX_PAYLOAD_SIZE]
                                      ELSE @[i]],
                               !.num_packets_left = packetsLeft,
                               !.transmission_complete_event =
                                   @ \/ packetsLeft = 0]]
                /\ fault' \in AssertOutcome(packetsLeft # UINT64_MAX)
        /\ UNCHANGED <<netvars, transmissions_in_progress, app, handed, built, last_comm>>

\* the packet indices packetize_contiguous builds from bytes_to_packetize
PacketIndices(bytes_to_packetize) ==
    {i \div MAX_PAYLOAD_SIZE :
        i \in {j \in 0..(bytes_to_packetize - 1) : j % MAX_PAYLOAD_SIZE = 0}}

\* send_packet accepts or rejects each packet; a rejection is a
\* DebugBreak(), at which the process stops unless a debugger resumes it
\* the loop of packetize_contiguous from offset i on, with
\* bytes_left_to_packetize bytes still to place: one DATA_PACKET per pass
RECURSIVE PacketizeFrom(_, _, _, _, _)
PacketizeFrom(transmission_data, bytes_to_packetize, transmission_id, i, bytes_left_to_packetize) ==
    IF ~(i < bytes_to_packetize)
    THEN <<>>
    ELSE LET full == bytes_left_to_packetize > MAX_PAYLOAD_SIZE
             bytes_in_payload ==
                 IF full THEN MAX_PAYLOAD_SIZE ELSE bytes_left_to_packetize
             packet ==
                 [transmission_id |-> transmission_id,
                  index_in_transmission |-> i \div MAX_PAYLOAD_SIZE,
                  bytes_in_payload |-> bytes_in_payload,
                  data |-> SubSeq(transmission_data, i + 1,
                                  i + bytes_in_payload)]
         IN  <<packet>> \o
             PacketizeFrom(transmission_data, bytes_to_packetize,
                           transmission_id, i + MAX_PAYLOAD_SIZE,
                           IF full
                           THEN bytes_left_to_packetize - MAX_PAYLOAD_SIZE
                           ELSE bytes_left_to_packetize)

\* a loop that fills every packet: it starts with a payload too many left
DataPacketsAllFull(transmission_data, bytes_to_packetize, transmission_id) ==
    PacketizeFrom(transmission_data, bytes_to_packetize, transmission_id,
                  0, bytes_to_packetize + MAX_PAYLOAD_SIZE)

\* the DATA_PACKETs one call of packetize_contiguous builds, in order
DataPacketsOf(transmission_data, bytes_to_packetize, transmission_id) ==
    PacketizeFrom(transmission_data, bytes_to_packetize, transmission_id,
                  0, bytes_to_packetize)

packetize_contiguous(transmission_id, bytes_to_packetize) ==
    LET indices == PacketIndices(bytes_to_packetize)
        packets ==
            DataPacketsOf(transmissions_in_progress[transmission_id].data,
                          bytes_to_packetize, transmission_id)
    IN  /\ fault = "none"
        /\ bytes_to_packetize <=
              Len(transmissions_in_progress[transmission_id].data)
        /\ \E rejected \in SUBSET indices :
              \E f \in AssertOutcome(rejected = {}) :
                 /\ fault' = f
                 /\ IF f = "none"
                    THEN /\ handed' = [handed EXCEPT ![transmission_id] =
                                          @ \cup (indices \ rejected)]
                         /\ built' = packets
                    ELSE \E stop \in rejected :
                            /\ handed' = [handed EXCEPT ![transmission_id] =
                                  @ \cup {i \in indices \ rejected : i < stop}]
                            /\ built' = SubSeq(packets, 1, stop + 1)
        /\ last_comm' = 0
        /\ UNCHANGED <<netvars, transmissions_in_progress, app, rx>>

\* ---------------------------------------------------------- specifications
\* the application's threads calling send_packet concurrently
NextSend == \E t \in SendThreads : ProducerStep(t) \/ SendStep(t)

SpecSend == Init /\ [][NextSend]_vars

\* the same threads with one more call to make than the NIC has slots
SpecCursors == InitCursors /\ [][NextSend]_vars

\* one application thread sending in both directions, and the outbound
\* half of both pipes
NextRoute ==
    \/ \E t \in {"s1"} : ProducerStep(t) \/ SendStep(t)
    \/ \E n \in Nets :
          \/ ProducerStep(NicToWire[n]) \/ ConsumerStep(NicToWire[n])
          \/ NicToWireStep(n)
    \/ begin_simulation

SpecRoute == Init /\ [][NextRoute]_vars

\* one packet crossing the sender-to-receiver pipe while the clock runs
NextPipe ==
    \/ \E t \in {"s1"} : ProducerStep(t) \/ SendStep(t)
    \/ \E n \in {"SR_net"} :
          \/ ProducerStep(NicToWire[n]) \/ ConsumerStep(NicToWire[n])
          \/ ProducerStep(WireToNic[n]) \/ ConsumerStep(WireToNic[n])
          \/ NicToWireStep(n) \/ WireToNicStep(n)
    \/ begin_simulation \/ Tick

SpecPipe == InitPipe /\ [][NextPipe]_vars

\* the pipes whose threads run until the stop signal is given
StopPipes == {"SR_net"}

\* one packet in a pipe, the clock, and the stop signal; every thread that
\* can take a step is eventually scheduled, and the clock advances
NextStop ==
    \/ \E t \in {"s1"} : ProducerStep(t) \/ SendStep(t)
    \/ \E n \in StopPipes :
          \/ ProducerStep(NicToWire[n]) \/ ConsumerStep(NicToWire[n])
          \/ ProducerStep(WireToNic[n]) \/ ConsumerStep(WireToNic[n])
          \/ NicToWireStep(n) \/ WireToNicStep(n)
    \/ begin_simulation \/ end_simulation \/ Tick

ThreadStep(t) ==
    \/ ProducerStep(t) \/ ConsumerStep(t)
    \/ t \in SendThreads /\ SendStep(t)
    \/ \E n \in StopPipes : t = NicToWire[n] /\ NicToWireStep(n)
    \/ \E n \in StopPipes : t = WireToNic[n] /\ WireToNicStep(n)

FairStop ==
    /\ \A n \in StopPipes : /\ WF_vars(ThreadStep(NicToWire[n]))
                            /\ WF_vars(ThreadStep(WireToNic[n]))
    /\ WF_vars(ThreadStep("s1"))
    /\ WF_vars(Tick)

SpecStop == InitPipe /\ [][NextStop]_vars /\ FairStop

\* the same pipe when the application hands send_packet only packets that
\* enter it: a valid packet, an accepted payload size, ROLE_SENDER
NextCrossing ==
    \/ \E t \in {"s1"} :
          \/ ProducerStep(t)
          \/ /\ SendStep(t)
             /\ pc[t] = "idle" =>
                   /\ ~SendRejectsInput(calls'[Len(calls')].in)
                   /\ SendNet(calls'[Len(calls')].in.role) \in StopPipes
    \/ \E n \in StopPipes :
          \/ ProducerStep(NicToWire[n]) \/ ConsumerStep(NicToWire[n])
          \/ ProducerStep(WireToNic[n]) \/ ConsumerStep(WireToNic[n])
          \/ NicToWireStep(n) \/ WireToNicStep(n)
    \/ begin_simulation \/ Tick

SpecCrossing == InitPipe /\ [][NextCrossing]_vars

\* two application threads producing into the outbound NICs while the
\* NIC-to-wire thread of the sender-to-receiver pipe consumes
NextRing ==
    \/ \E t \in SendThreads : ProducerStep(t) \/ SendStep(t)
    \/ \E n \in StopPipes :
          \/ ProducerStep(NicToWire[n]) \/ ConsumerStep(NicToWire[n])
          \/ NicToWireStep(n)
    \/ begin_simulation

SpecRing == Init /\ [][NextRing]_vars

\* one packet crossing the sender-to-receiver pipe; the application calls
\* receive_packet once, after the packet has left the wire; every thread
\* that can take a step is eventually scheduled
ReceiveInProgress(t) ==
    \/ ConsumerStep(t)
    \/ rp_got(t) \/ rp_wait(t) \/ rp_check_deadline(t)

NextReceive ==
    \/ NextPipe
    \/ \E t \in RecvThreads :
          \/ /\ received[t] = NoReceive
             /\ \E n \in StopPipes : rcur[<<n, "network_buffer">>] > 0
             /\ receive_packet(t)
          \/ ReceiveInProgress(t)

FairReceive ==
    /\ \A n \in StopPipes : /\ WF_vars(ThreadStep(NicToWire[n]))
                            /\ WF_vars(ThreadStep(WireToNic[n]))
    /\ WF_vars(ThreadStep("s1"))
    /\ \A t \in RecvThreads : WF_vars(ReceiveInProgress(t))
    /\ WF_vars(Tick)

SpecReceive == InitPipe /\ [][NextReceive]_vars /\ FairReceive

\* the sender's listener thread on an idle network, the clock and the stop
\* signal; the listener is scheduled whenever it can run
NextListen ==
    \/ \E t \in ListenThreads : ListenerStep(t)
    \/ begin_simulation \/ end_simulation \/ Tick

FairListen ==
    /\ \A t \in ListenThreads : WF_vars(ListenerStep(t))
    /\ WF_vars(Tick)

SpecListen == Init /\ [][NextListen]_vars /\ FairListen

\* the transport layer's operations on their inputs
NextTransport ==
    \/ \E id \in TransmissionIds, length \in Lengths :
          send_transmission(id, length)
    \/ \E id \in TransmissionIds, timeout_ms \in Timeouts :
          receive_transmission(id, timeout_ms)
    \/ \E packet \in CommPackets : sender_listener(packet)
    \/ \E id \in TransmissionIds, bytes \in 0..(MAX_PAYLOAD_SIZE + 1) :
          packetize_contiguous(id, bytes)

SpecTransport == Init /\ [][NextTransport]_vars

\* the transmission whose minion runs packetize_contiguous
PacketizeIds == {1}

\* transmissions are submitted and the bytes of one are cut into data packets
NextPacketize ==
    \/ \E id \in TransmissionIds, length \in Lengths :
          send_transmission(id, length)
    \/ \E id \in PacketizeIds, bytes \in 0..(MAX_PAYLOAD_SIZE + 1) :
          packetize_contiguous(id, bytes)

SpecPacketize == Init /\ [][NextPacketize]_vars

\* the receiver's records of its transmissions and the data packets that
\* arrive for them, duplicates included
NextReceiver ==
    \/ \E id \in TransmissionIds, num_packets \in 1..MaxBits :
          init_received_transmission(id, num_packets)
    \/ \E pkt \in DataPackets : document_received_transmission(pkt)

SpecReceiver == Init /\ [][NextReceiver]_vars

\* the application's calls into the transport layer
NextCalls ==
    \/ \E id \in TransmissionIds, length \in Lengths :
          send_transmission(id, length)
    \/ \E id \in TransmissionIds, timeout_ms \in Timeouts :
          receive_transmission(id, timeout_ms)

SpecCalls == Init /\ [][NextCalls]_vars

\* transmissions are submitted and the listener records the ACKs that
\* arrive for them; the sender's threads keep running
NextComplete ==
    \/ \E id \in TransmissionIds, length \in Lengths :
          send_transmission(id, length)
    \/ \E packet \in CommPackets : sender_listener(packet)

FairComplete == WF_vars(NextComplete)

SpecComplete == Init /\ [][NextComplete]_vars /\ FairComplete

\* two application threads with one more accepted-input call to make than
\* the NIC has slots, and the thread that empties the outbound NIC
NextOrder ==
    \/ \E t \in SendThreads :
          \/ ProducerStep(t)
          \/ /\ SendStep(t)
             /\ pc[t] = "idle" =>
                   /\ ~SendRejectsInput(calls'[Len(calls')].in)
                   /\ SendNet(calls'[Len(calls')].in.role) \in StopPipes
                   /\ calls'[Len(calls')].in.bytes_in_payload = 0
    \/ \E n \in StopPipes :
          \/ ProducerStep(NicToWire[n]) \/ ConsumerStep(NicToWire[n])
          \/ NicToWireStep(n)
    \/ begin_simulation

SpecOrder == InitCursors /\ [][NextOrder]_vars

\* the same threads with as many calls to make as the NIC has slots, while
\* the clock advances; every thread that can take a step is eventually
\* scheduled
NextWake == NextOrder \/ Tick

FairWake ==
    /\ \A n \in StopPipes : WF_vars(ThreadStep(NicToWire[n]))
    /\ \A t \in SendThreads : WF_vars(ThreadStep(t))
    /\ WF_vars(Tick)

SpecWake == Init /\ [][NextWake]_vars /\ FairWake

\* ------------------------------------------------------------------ claims
\* the indices of transmission id whose bit is set in the sender's bitmap
Acked(id) == transmissions_in_progress[id].packet_status_bitmap.bits

PacketsOf(id) ==
    0..(transmissions_in_progress[id].number_of_packets_in_transmission - 1)

\* C2: send_transmission returns success only in a state where every
\* packet index in [0, n) of the transmission has its bit set in the
\* sender's ACK bitmap.
C2_SuccessOnlyWhenAcked ==
    \A id \in TransmissionIds :
        app[id].send_ret = TRANSMISSION_ACCEPTED => PacketsOf(id) \subseteq Acked(id)

\* C3: the success of send_transmission follows the passes of sending and
\* re-sending: a transmission reported as sent has had every packet index
\* in [0, n) handed to send_packet and accepted by the network.
C3_SuccessFollowsSending ==
    \A id \in TransmissionIds :
        app[id].send_ret = TRANSMISSION_ACCEPTED => PacketsOf(id) \subseteq handed[id]

\* C4: processing a comm packet that carries transmission id A changes the
\* record of no other transmission B.
C4_OnlyOwnRecord ==
    [][\A B \in TransmissionIds :
          (last_comm' # 0 /\ last_comm' # B) =>
              transmissions_in_progress'[B] = transmissions_in_progress[B]]_vars

\* C5: a receive_transmission call for a transmission that does not
\* complete returns NO_TRANSMISSION_AVAILABLE and leaves dest and
\* *out_length as the caller had them.
C5_TimeoutLeavesOutputs ==
    \A id \in TransmissionIds :
        app[id].recv_ret # Pending =>
            /\ app[id].recv_ret = NO_TRANSMISSION_AVAILABLE
            /\ app[id].dest = NoCall.dest
            /\ app[id].out_length = NoCall.out_length

\* a transmission was sent and the receive call for it timed out
C5_Witness ==
    \E id \in TransmissionIds :
        /\ app[id].send_ret = TRANSMISSION_ACCEPTED
        /\ app[id].recv_ret = NO_TRANSMISSION_AVAILABLE
\* call i of send_packet was accepted and no receive_packet returned its bytes
InFlight(i) ==
    /\ calls[i].ret = PACKET_ACCEPTED
    /\ \A j \in DOMAIN delivered :
          delivered[j].pkt # PacketImage(i, calls[i].total)

\* C6: no accepted packet stays in the pipeline forever: while an accepted
\* packet has not been returned by receive_packet, the network threads
\* that carry it are running.
C6_AcceptedStaysDeliverable ==
    \A i \in DOMAIN calls : InFlight(i) => fault = "none"

\* C8: the bytes of an accepted packet cross from the wire into the
\* inbound NIC: when wire_to_NIC copies a packet, the destination is the
\* space of that size reserved in the data arena of the pipe's inbound NIC,
\* where receive_packet reads it.
C8_CopiedIntoInboundNIC ==
    \A n \in Nets :
        pc[WireToNic[n]] = "w2n_memcpy" =>
            LET nic_packet == Deref(loc[WireToNic[n]].nic_packet, ZeroMeta)
                net_packet == Deref(loc[WireToNic[n]].net_packet, ZeroMeta)
            IN  ArenaOf(nic_packet.starting_address_in_buffer,
                        net_packet.packet_size_in_bytes)
                    = {<<n, "inbound_NIC">>}

\* the pipe a role sends into (network.h role mapping)
PipeOfSender(role) ==
    CASE role = "ROLE_SENDER" -> "SR_net"
      [] role = "ROLE_RECEIVER" -> "RS_net"

InvalidSend(in) ==
    \/ in.pkt = "NULL"
    \/ in.bytes_in_payload = 0
    \/ in.bytes_in_payload > MAX_PAYLOAD_SIZE
    \/ in.role \notin {"ROLE_SENDER", "ROLE_RECEIVER"}

\* C10: a send_packet call with a NULL packet, an invalid length (zero or
\* above MAX_PAYLOAD_SIZE) or an invalid role returns PACKET_REJECTED at
\* its validation: it is never left to reserve a slot, and never accepted.
C10_InvalidInputRejected ==
    \A i \in DOMAIN calls :
        InvalidSend(calls[i].in) => calls[i].ret = PACKET_REJECTED
\* the wire slot the wire_to_NIC thread of pipe n holds
HeldWirePacket(n) ==
    LET q == loc[WireToNic[n]].net_packet
    IN  meta[BufOf(q)][q[3]]

\* C11: no packet is moved off the wire before its arrival time: when
\* wire_to_NIC copies a packet towards the inbound NIC, the current time
\* has reached the time_available stamped on its wire slot.
C11_NotBeforeArrival ==
    \A n \in Nets :
        pc[WireToNic[n]] = "w2n_memcpy" =>
            HeldWirePacket(n).time_available <= time_now_ms

\* wire_to_NIC is copying a packet that an application sent
C11_Witness ==
    \E n \in Nets :
        /\ pc[WireToNic[n]] = "w2n_memcpy"
        /\ HeldWirePacket(n).packet_size_in_bytes > 0
        /\ \E i \in DOMAIN calls : calls[i].ret = PACKET_ACCEPTED
\* C12: the arrival time stamped on a packet placed on the wire is the
\* time of placement plus the one-way propagation delay LATENCY_MS / 2
\* (stated where no time passes between the stamp and the observation).
C12_StampIsPropagationDelay ==
    \A n \in Nets :
        pc[NicToWire[n]] = "n2w_ready" =>
            LET p == loc[NicToWire[n]].net_packet
            IN  meta[BufOf(p)][p[3]].time_available =
                    time_now_ms + PROPAGATION_DELAY_MS

\* the slots of a buffer that hold or are being given a packet
OccupiedSlots(b) ==
    {i \in DOMAIN meta[b] : meta[b][i].status # "EMPTY"}

\* C13: a packet the wire-to-NIC thread drops leaves the inbound NIC as it
\* was: no slot of the inbound NIC has been handed out for it, so the
\* NIC's write cursor is still ahead of its read cursor by exactly the
\* packets it holds; the packet's wire slot is released and the packet is
\* not delivered
C13_DropLeavesNICUnchanged ==
    \A n \in Nets :
        pc[WireToNic[n]] \in {"w2n_drop", "w2n_drop_increment"} =>
            wcur[<<n, "inbound_NIC">>] - rcur[<<n, "inbound_NIC">>] =
                Cardinality(OccupiedSlots(<<n, "inbound_NIC">>))

\* the network threads of the running pipes have returned
NetworkThreadsDone ==
    \A n \in StopPipes : pc[NicToWire[n]] = "done" /\ pc[WireToNic[n]] = "done"

\* C14: once simulation_end is set, the NIC-to-wire thread and the
\* wire-to-NIC thread of a pipe return, whatever wait or loop they are in,
\* so that net_free's unbounded waits on the two threads end (a process
\* that has stopped at a fault is not held against the claim)
C14_ThreadsExitAfterStop ==
    (simulation_end /\ fault = "none") ~> (NetworkThreadsDone \/ fault # "none")

\* C15: once the shutdown event is set, the sender's listener thread leaves
\* its receive loop and returns
C15_ListenerExitsOnShutdown ==
    simulation_end ~> \A t \in ListenThreads : pc[t] = "done"

\* C16: every receive_packet call returns; a call never stays in progress
\* for ever, whatever the inbound NIC's slots hold (a process that has
\* stopped at a fault is not held against the claim)
C16_ReceiveReturns ==
    \A t \in RecvThreads :
        (pc[t] # "idle" /\ fault = "none") ~> (pc[t] = "idle" \/ fault # "none")

\* the packets the consumer of pipe n's outbound NIC has taken and put on
\* the wire: slot by slot, the bytes it copied
TakenSlots(n) ==
    {i \in DOMAIN meta[<<n, "network_buffer">>] :
        meta[<<n, "network_buffer">>][i].status = "READY"}

Taken(n, i) ==
    LET m == meta[<<n, "network_buffer">>][i]
    IN  MemRead(m.starting_address_in_buffer, m.packet_size_in_bytes)

\* the send_packet calls whose packet was published in pipe n's outbound NIC
Published(n) ==
    {c \in DOMAIN calls : /\ calls[c].ret = PACKET_ACCEPTED
                          /\ SendNet(calls[c].in.role) = n}

\* producers and consumer of pipe n's outbound NIC are at rest
AtRest(n) ==
    /\ \A t \in SendThreads : pc[t] = "idle"
    /\ pc[NicToWire[n]] = "n2w_wait"
    /\ wcur[<<n, "outbound_NIC">>] = rcur[<<n, "outbound_NIC">>]

\* C17: on the outbound NIC of a pipe, under any interleaving of producers
\* and consumer, every packet taken is a packet that was handed in and not
\* rejected, no packet is taken twice, and when no reservation was rejected
\* and the buffer has been emptied every published packet has been taken
C17_TakenEqualsPublished ==
    \A n \in StopPipes :
        /\ \A i \in TakenSlots(n) :
              \E c \in DOMAIN calls :
                 /\ calls[c].ret # PACKET_REJECTED
                 /\ SendNet(calls[c].in.role) = n
                 /\ Taken(n, i) = PacketImage(c, calls[c].total)
        /\ \A i, j \in TakenSlots(n) : i # j => Taken(n, i) # Taken(n, j)
        /\ (AtRest(n) /\ \A c \in DOMAIN calls : calls[c].ret = PACKET_ACCEPTED)
              => \A c \in Published(n) :
                    \E i \in TakenSlots(n) :
                       Taken(n, i) = PacketImage(c, calls[c].total)

\* the bytes of the data area that slot i of buffer b describes
Region(b, i) ==
    LET m == meta[b][i]
    IN  {a \in m.starting_address_in_buffer ..
               (m.starting_address_in_buffer + m.packet_size_in_bytes - 1) : TRUE}

\* C18: the region of a READY slot shares no byte with the region of
\* another slot of the same buffer that is WRITING, READY or READING
C18_ReadyRegionsDisjoint ==
    \A b \in Buffers : \A i, j \in DOMAIN meta[b] :
        (/\ i # j
         /\ meta[b][i].status = "READY"
         /\ meta[b][j].status \in {"WRITING", "READY", "READING"})
            => Region(b, i) \cap Region(b, j) = {}

\* C19: for every index k that has arrived, bit k of the received bitmap is
\* set and the bytes stored at k * MAX_PAYLOAD_SIZE are the payload of the
\* first arrival of k; num_packets_left has been decremented once per
\* distinct index that arrived, whatever the number of duplicates, and so
\* never passes below 0
C19_FirstArrivalCounts ==
    \A id \in TransmissionIds :
        LET info == transmission_info_sparse_array[id]
            ps == documented[id].packets
            Arrived == {ps[i].index_in_transmission : i \in DOMAIN ps}
            FirstArrival(k) ==
                ps[CHOOSE i \in DOMAIN ps :
                      /\ ps[i].index_in_transmission = k
                      /\ \A j \in 1..(i - 1) : ps[j].index_in_transmission # k]
            StoredAt(k) ==
                [i \in 1..MAX_PAYLOAD_SIZE |->
                    info.transmission_data[k * MAX_PAYLOAD_SIZE + i]]
        IN  /\ \A k \in Arrived :
                  /\ k \in info.status_bitmap.bits
                  /\ StoredAt(k) = Payload(FirstArrival(k))
            /\ info.num_packets_left =
                  documented[id].num_packets - Cardinality(Arrived)

\* C20: in every state of the sender in which the addressed transmission
\* has a non-empty ACK bitmap, processing a comm packet (f, b, B) sets ACK bit
\* f + i of that transmission for exactly the i < b with bit i of B set and
\* clears none, and processing the same packet again changes nothing
C20_SetsExactlyAckedBits ==
    \A packet \in CommPackets :
        LET id == packet.transmission_id
            tip == transmissions_in_progress
            acked == {packet.first_packet_index + i :
                         i \in {x \in packet.bitmap : x < packet.n_bits_to_read}}
        IN  tip[id].packet_status_bitmap.words > 0 =>
                \A o \in ListenerLoop(packet, 0, tip) :
                    /\ o.fault = "none"
                    /\ o.tip[id].packet_status_bitmap.bits =
                          tip[id].packet_status_bitmap.bits \cup acked
                    /\ \A again \in ListenerLoop(packet, 0, o.tip) :
                          again.tip = o.tip /\ again.fault = "none"


C22_RecordsCeilingAndClearBitmap ==
    [][\A id \in TransmissionIds, length \in Lengths \ {0} :
          send_transmission(id, length) =>
              LET n == (length + MAX_PAYLOAD_SIZE - 1) \div MAX_PAYLOAD_SIZE
                  record == transmissions_in_progress'[id]
              IN  /\ record.number_of_packets_in_transmission = n
                  /\ record.packet_status_bitmap.allocated
                  /\ record.packet_status_bitmap.words * BitsPerWord >= n
                  /\ record.packet_status_bitmap.bits = {}]_vars

\* C23: send_transmission called with length 0 fails at once with the
\* rejected code and has no side effects: no sender record is created or
\* overwritten and no packet is sent.
C23_ZeroLengthRejected ==
    [][\A id \in TransmissionIds :
          send_transmission(id, 0) =>
              /\ app'[id].send_ret = TRANSMISSION_REJECTED
              /\ transmissions_in_progress' = transmissions_in_progress
              /\ calls' = calls]_vars

\* C24: a data packet that send_packet rejected is sent again until it is
\* accepted: the sender never goes on to a later packet index while an
\* earlier index of the pass has not been accepted by the network.
C24_RejectedPacketRetried ==
    \A k \in 1..Len(built) :
        \A j \in 0..(built[k].index_in_transmission - 1) :
            j \in handed[built[k].transmission_id]

\* C25: once every ACK bit in [0, n_packets) of a sender record is set, the
\* transmission completes: its send_transmission call has returned success
\* and its record is destroyed.
C25_AllAckedCompletes ==
    \A id \in TransmissionIds :
        (/\ app[id].send_ret # Pending
         /\ PacketsOf(id) # {}
         /\ PacketsOf(id) \subseteq Acked(id))
            ~> (\/ fault # "none"
                \/ /\ app[id].send_ret = TRANSMISSION_ACCEPTED
                   /\ ~transmissions_in_progress[id].packet_status_bitmap.allocated)

\* C26: for a transmission of n packets the receiver's count of packets
\* left is n minus the number of bits set in [0, n) of its bitmap, and the
\* completion event is set exactly when all n bits are set.
C26_LeftCountsClearBits ==
    \A id \in TransmissionIds :
        LET n == documented[id].num_packets
            info == transmission_info_sparse_array[id]
            got == info.status_bitmap.bits \cap (0..(n - 1))
        IN  n > 0 =>
                /\ info.num_packets_left = n - Cardinality(got)
                /\ info.transmission_complete_event <=> Cardinality(got) = n

\* C27: a reservation rejected after its metadata slot was claimed leaves
\* the outbound NIC as if it had never been attempted: once the producers
\* have returned and the consumer is not inside a take, every slot between
\* the read cursor and the write cursor holds a packet, so no consumer
\* waits on a slot that no producer will fill.
C27_RejectionLeavesNoGap ==
    \A n \in Nets :
        LET b == <<n, "outbound_NIC">>
        IN  (/\ \A t \in SendThreads : pc[t] = "idle"
             /\ pc[NicToWire[n]] \in {"begin", "n2w_wait"})
                => /\ wcur[b] - rcur[b] = Cardinality(OccupiedSlots(b))
                   /\ \A i \in rcur[b]..(wcur[b] - 1) :
                         meta[b][i % num_metadata_slots(b)].status = "READY"

\* C28: in every packet buffer with N metadata slots the cursors satisfy
\* read_cursor <= write_cursor <= read_cursor + N after every step, and a
\* step leaves each cursor as it was or raises it by exactly one.
C28_CursorsBoundedAndMonotone ==
    [][\A b \in Buffers :
          /\ rcur'[b] <= wcur'[b]
          /\ wcur'[b] <= rcur'[b] + num_metadata_slots(b)
          /\ wcur'[b] \in {wcur[b], wcur[b] + 1}
          /\ rcur'[b] \in {rcur[b], rcur[b] + 1}]_vars

\* C29: every time get_empty_buffer_slot evaluates its assertion, the
\* thread's copy of the write cursor is not below its copy of the read
\* cursor, whatever other threads did between the two reads.
C29_LocalWriteNotBelowRead ==
    \A t \in Threads :
        LET size == num_metadata_slots(loc[t].buf)
            write_slot == loc[t].write_slot
            read_slot == loc[t].read_slot
        IN  (/\ pc[t] = "ges_loop"
             /\ (read_slot = write_slot \/ write_slot % size # read_slot % size))
                => write_slot >= read_slot

\* C30: a producer's claim (EMPTY to RESERVED) is made on the slot at
\* write_cursor mod N as the write cursor stands at that moment, and a
\* consumer's take (READY to READING) on the slot at read_cursor mod N as
\* the read cursor stands at that moment.
C30_ClaimsAtCurrentCursor ==
    [][\A b \in Buffers : \A i \in DOMAIN meta[b] :
          /\ (meta[b][i].status = "EMPTY" /\ meta'[b][i].status = "RESERVED")
                => i = wcur[b] % num_metadata_slots(b)
          /\ (meta[b][i].status = "READY" /\ meta'[b][i].status = "READING")
                => i = rcur[b] % num_metadata_slots(b)]_vars

\* C31: packets leave a buffer in the order of their slot assignment: when
\* the consumer takes the packet of a slot of the outbound NIC, no packet
\* whose slot was claimed at a smaller write cursor is still waiting,
\* published and not taken, in another slot.
C31_TakenInClaimOrder ==
    [][\A n \in StopPipes :
          LET b == <<n, "outbound_NIC">>
              Holder(j) ==
                  {c \in DOMAIN calls :
                      /\ calls[c].slot = j
                      /\ SendNet(calls[c].in.role) = n
                      /\ \A d \in DOMAIN calls :
                            (calls[d].slot = j /\ SendNet(calls[d].in.role) = n)
                               => calls[d].claimed <= calls[c].claimed}
          IN  \A i \in DOMAIN meta[b] :
                 (meta[b][i].status = "READY" /\ meta'[b][i].status = "READING")
                    => \A B \in Holder(i) : \A j \in DOMAIN meta[b] \ {i} :
                          \A A \in Holder(j) :
                             meta[b][j].status = "READY"
                                => calls[A].claimed >= calls[B].claimed]_vars

\* C32: when a producer computes the start of its region from the previous
\* metadata slot, the producer of that slot has stored both its offset and
\* its size for its current reservation: the slot is not RESERVED, no
\* thread is still inside acquire_buffer_space for it, and the offset the
\* producer read earlier is the offset the slot holds now.  Stated for a
\* producer whose slot is not the first of the ring, so that the previous
\* slot is the one claimed just before its own.
C32_BuildsOnPublishedSlot ==
    \A t \in Threads :
        LET prev == loc[t].previous_packet
        IN  (pc[t] = "ab_location" /\ loc[t].packet_metadata[3] >= 1) =>
               /\ meta[BufOf(prev)][prev[3]].status # "RESERVED"
               /\ \A u \in Threads \ {t} :
                     loc[u].packet_metadata = prev =>
                        pc[u] \notin {"ab_previous", "ab_spin", "ab_location",
                                      "ab_read_start", "ab_success",
                                      "ab_failure"}
               /\ loc[t].my_location =
                     meta[BufOf(prev)][prev[3]].starting_address_in_buffer

\* C33: when wire_to_NIC has found the head packet of the wire not yet due
\* and is about to wait for it, the wire buffer is as it was before the
\* look: the slot at the read cursor is READY, so a later scan finds the
\* packet again.
C33_NotDueHeadStaysReady ==
    \A n \in Nets :
        LET b == <<n, "network_buffer">>
        IN  pc[WireToNic[n]] = "w2n_timeout" =>
               meta[b][rcur[b] % num_metadata_slots(b)].status = "READY"

\* C34: a packet for which the wire has no free slot or no byte space is
\* dropped and NIC_to_wire goes on: the thread ends only on the stop
\* signal, and when it has ended no slot of its outbound NIC is left in
\* READING.
C34_WireFullDropsAndContinues ==
    \A n \in Nets :
        pc[NicToWire[n]] = "done" =>
            /\ simulation_end
            /\ \A i \in DOMAIN meta[<<n, "outbound_NIC">>] :
                  meta[<<n, "outbound_NIC">>][i].status # "READING"

\* C35: the timeout wire_to_NIC passes to its wait is at most NET_RETRY_MS,
\* and is never the wrapped difference of an earlier time and a later one.
C35_WaitCappedAtRetry ==
    \A n \in Nets :
        pc[WireToNic[n]] = "w2n_wait" =>
            loc[WireToNic[n]].timer <= NET_RETRY_MS

\* C36: every region acquire_buffer_space grants lies inside the data arena
\* of the buffer it was called for: it starts at or after the arena base
\* and ends at or before base + buffer_size_in_bytes.
C36_GrantedRegionInsideArena ==
    \A t \in Threads :
        pc[t] = "ab_success" =>
            /\ loc[t].my_location >= buffer_data(loc[t].buf)
            /\ loc[t].my_location + loc[t].my_size <=
                  buffer_data(loc[t].buf) + buffer_size_in_bytes(loc[t].buf)

\* C37: every ACK bit the sender listener sets has an index below
\* number_of_packets_in_transmission of the transmission the comm packet
\* addresses, and no comm packet makes the listener store outside that
\* transmission's bitmap.
C37_AckBitsInsideBitmap ==
    [][last_comm' # 0 =>
          /\ fault' # "access_violation"
          /\ \A id \in TransmissionIds :
                (transmissions_in_progress'[id].packet_status_bitmap.bits
                    \ transmissions_in_progress[id].packet_status_bitmap.bits)
                  \subseteq
                    IF id = last_comm'
                    THEN 0..(transmissions_in_progress[id].number_of_packets_in_transmission - 1)
                    ELSE {}]_vars

C39_ReadyPacketTaken ==
    \A n \in StopPipes : \A i \in 0..(NicSlots - 1) :
        (/\ simulation_begin
         /\ fault = "none"
         /\ meta[<<n, "outbound_NIC">>][i].status = "READY")
            ~> (\/ fault # "none"
                \/ meta[<<n, "outbound_NIC">>][i].status # "READY")

\* C40: a producer whose previous metadata slot holds a rejected
\* reservation (the slot is EMPTY again, and the producer has read the
\* location the rejected reservation left in it) starts from that
\* location, or from the arena base when the slot was given none: the
\* rejected packet takes up no bytes of the arena.
C40_RejectedSlotTakesNoBytes ==
    [][\A t \in SendThreads :
          LET b == loc[t].buf
              q == Deref(loc[t].previous_packet, loc[t].garbage)
              Rejected ==
                  \E c \in DOMAIN calls :
                      /\ calls[c].ret = PACKET_REJECTED
                      /\ calls[c].slot = loc[t].previous_packet[3]
                      /\ SendNet(calls[c].in.role) = b[1]
                      /\ calls[c].claimed = calls[loc[t].call].claimed - 1
          IN  (/\ pc[t] = "ab_location" /\ pc'[t] = "ab_read_start"
               /\ q.status = "EMPTY" /\ Rejected
               /\ loc[t].my_location = q.starting_address_in_buffer)
                  => loc'[t].my_location =
                         IF q.starting_address_in_buffer = NULL
                         THEN buffer_data(b)
                         ELSE q.starting_address_in_buffer]_vars

====
